---- MODULE Spec2Model ----
(***************************************************************************)
(* Model of analyzer/reports/reports.py: the Report lifecycle              *)
(* (SingleFileReport / MultipleFilesReport constructors), the five         *)
(* extractors (SingleJudyReport, MultipleJudyReport, JumbleReport,         *)
(* MajorReport, PitReport), the overlap check and the count properties.    *)
(*                                                                         *)
(* One process constructs reports one after the other.  The only state     *)
(* that survives a construction is the mutant counter of reports.mutants.  *)
(*                                                                         *)
(* Artifacts are modelled after tokenisation by the standard library:      *)
(*   - a Judy JSON document is a record with a "classes" sequence;         *)
(*   - a Judy log and a Jumble log are sequences of line tokens, tagged    *)
(*     by which of the regular expressions of the source match them;       *)
(*   - the Major tables are sequences of rows; a Pit document is the       *)
(*     sequence of the root's children.                                    *)
(* reports.mutants is not part of the sources at hand: a mutant is the     *)
(* record of its identifying attributes and of the counter value mixed in  *)
(* at construction, and its hash is an injective digest of the two.        *)
(***************************************************************************)
EXTENDS Integers, Sequences, FiniteSets, TLC

VARIABLES
    pc,          \* position of the constructor: idle, init, read, hashed,
                 \* extracted, returned, failed
    kind,        \* the Report subclass being constructed
    files,       \* the artifact(s) named by the constructor's file path(s)
    content,     \* bytes read by __init__ (None before the read)
    report,      \* the object under construction (self)
    counter,     \* reports.mutants: the process-wide mutant counter
    error,       \* type of the exception the constructor's caller sees
    payload,     \* args[0] of an OverlappingMutantsError
    extract_exc, \* type of the exception raised inside extract()
    steps        \* the steps the current constructor call has run, in order

vars == <<pc, kind, files, content, report, counter, error, payload,
          extract_exc, steps>>

(***************************************************************************)
(* Bounds of the model.                                                    *)
(***************************************************************************)
MaxLen == 2        \* total number of entries / lines / rows of an artifact set
MaxClasses == 2    \* entries of a Judy document's "classes" list
MaxCounter == 1    \* a construction starts only while counter <= MaxCounter

(***************************************************************************)
(* Optional values: None is the empty set, a value v is {v}.               *)
(***************************************************************************)
None == {}
Some(v) == {v}
Val(o) == CHOOSE v \in o : TRUE

SeqsUpTo(S, n) == UNION {[1..k -> S] : k \in 0..n}

Range(s) == {s[i] : i \in DOMAIN s}

(***************************************************************************)
(* reports.mutants.  An artifact entry carries its identifying attributes  *)
(* and whether the factory mixes the counter into the mutant built from    *)
(* it.  Every construction advances the counter.                           *)
(***************************************************************************)
Entries == {[attrs |-> 1, mix |-> FALSE], [attrs |-> 2, mix |-> TRUE]}

\* Mutant factory (from_dict, from_tuple, from_series, from_xml_element),
\* called when the counter holds c.
NewMutant(e, c) ==
    [attrs |-> e.attrs, count |-> IF e.mix THEN c + 1 ELSE 0]

\* Mutant.__hash__: a digest of the identifying attributes and the count.
Hash(m) == <<m.attrs, m.count>>

\* [Factory(e) for e in es], the counter holding c0 at the first call.
BuildMutants(es, c0) ==
    [i \in 1..Len(es) |-> NewMutant(es[i], c0 + i - 1)]

(***************************************************************************)
(* Report.__init__: every collection and scalar count is None.             *)
(***************************************************************************)
NewReport ==
    [class_under_mutation |-> None,
     killed_mutants |-> None,
     live_mutants |-> None,
     _killed_mutants_count |-> None,
     _live_mutants_count |-> None,
     _hash_string |-> None]

\* The outcome of extract(): the object, the counter, the exception raised.
Done(self, c) == [self |-> self, counter |-> c, raised |-> "none"]
Raise(self, c, exc) == [self |-> self, counter |-> c, raised |-> exc]

(***************************************************************************)
(* SingleJudyReport._extract_json / MultipleJudyReport._extract_json.      *)
(***************************************************************************)
ExtractJson(self, json, c) ==
    LET classes == json.classes
        cum == Val(self.class_under_mutation)
        thedict == SelectSeq(classes, LAMBDA adict : adict.name = cum)
    IN  IF classes = <<>> THEN Raise(self, c, "EmptyJudyReportError")
        ELSE IF Len(thedict) = 0
             THEN Raise(self, c, "MissingClassFromJudyReportError")
        ELSE IF Len(thedict) > 1
             THEN Raise(self, c, "MultipleClassFromJudyReportError")
        ELSE \* JudyMutant.reset_counter(): the counter restarts at 0
             Done([self EXCEPT
                     !._killed_mutants_count =
                         Some(thedict[1].mutantsKilledCount),
                     !.live_mutants =
                         Some(BuildMutants(thedict[1].notKilledMutant, 0))],
                  Len(thedict[1].notKilledMutant))

(***************************************************************************)
(* MultipleJudyReport._extract_log.  A log line is a token: "match" when   *)
(* the pattern finds a (points, mutant id, operator, line) tuple in it,    *)
(* "noise" otherwise.  The tuples go through a set, whose iteration order  *)
(* is not specified: order is one enumeration of that set.                 *)
(***************************************************************************)
LogMutations(lines) ==
    {lines[i].tuple : i \in {j \in DOMAIN lines : lines[j].t = "match"}}

Orderings(S) == {s \in [1..Cardinality(S) -> S] : Range(s) = S}

\* _extract_log collecting the tuples in a list instead of a set
ExtractLog_list(self, lines, order, c) ==
    LET matches == SelectSeq(lines, LAMBDA l : l.t = "match")
        tuples == [n \in 1..Len(matches) |-> matches[n].tuple]
    IN  Done([self EXCEPT !.killed_mutants = Some(BuildMutants(tuples, c))],
             c + Len(tuples))

\* order: the tuples of LogMutations(lines) as the list comprehension
\* meets them
ExtractLog(self, lines, order, c) ==
    Done([self EXCEPT !.killed_mutants = Some(BuildMutants(order, c))],
         c + Len(order))

\* MultipleJudyReport.extract: _extract_json(), then _extract_log().
MultipleJudyExtract(self, fs, order, c) ==
    LET j == ExtractJson(self, fs.json, c)
    IN  IF j.raised # "none" THEN j
        ELSE ExtractLog(j.self, fs.log, order, j.counter)

\* SingleJudyReport.extract
SingleJudyExtract(self, fs, c) == ExtractJson(self, fs.json, c)

(***************************************************************************)
(* JumbleReport.extract.  The log is a sequence of tokens:                 *)
(*   mutating(name)  a line "Mutating <name>"                              *)
(*   start           "Mutation points = N, unit test time limit Ts"        *)
(*   end             "Jumbling took Ts"                                    *)
(*   score(err)      "Score: N%" followed on its line by "(err)" or not    *)
(*   fail(e)         a line "M FAIL: file:line: message"                   *)
(*   text(chars)     a run of kill markers ("." characters)                *)
(*   ws              white space only                                      *)
(***************************************************************************)
\* pattern.search: index of the first token at or after from whose kind is
\* one of kinds, 0 when there is none (search returns None).
Search(text, kinds, from) ==
    LET hits == {i \in DOMAIN text : i >= from /\ text[i].t \in kinds}
    IN  IF hits = {} THEN 0
        ELSE CHOOSE i \in hits : \A k \in hits : i <= k

IsFail(tok) == tok.t = "fail"
NotFail(tok) == tok.t # "fail"

\* the kinds of token that do not consist of white space
NotWs == {"mutating", "start", "end", "score", "fail", "text"}

\* What ([\w ]+)? captures at the head of a token once \s* has consumed the
\* white space before it: the token's leading word characters ("" for none).
LeadingWord(tok) ==
    CASE tok.t = "text" -> ""
      [] tok.t = "fail" -> "M FAIL"
      [] tok.t = "mutating" -> "Mutating "
      [] tok.t = "start" -> "Mutation points "
      [] tok.t = "end" -> "Jumbling took "
      [] tok.t = "score" -> "Score"

\* error_pattern.search(content).group(1) for the score token at index s:
\* r"Score: \d+%\s*\(?([\w ]+)?" ; \s* runs over line ends, so that without
\* an annotation the group captures the words at the head of the next token.
ScoreAnnotation(text, s) ==
    IF text[s].err # "" THEN text[s].err
    ELSE LET k == Search(text, NotWs, s + 1)
         IN  IF k = 0 THEN "" ELSE LeadingWord(text[k])

\* len(re.sub(r"\s+", "", killed_text))
RECURSIVE NonWsLen(_)
NonWsLen(toks) ==
    IF toks = <<>> THEN 0
    ELSE (CASE Head(toks).t = "ws" -> 0
            [] Head(toks).t = "text" -> Head(toks).chars)
         + NonWsLen(Tail(toks))

JumbleExtract(self, text, c) ==
    LET m == Search(text, {"mutating"}, 1)
        s == Search(text, {"score"}, 1)
        i == Search(text, {"start"}, 1)
        j == Search(text, {"end"}, i + 1)
        named == [self EXCEPT !.class_under_mutation = Some(text[m].name)]
        region == SubSeq(text, i + 1, j - 1)
        fails == SelectSeq(region, IsFail)
        live_mutants_count == Len(fails)
        killed_text == SelectSeq(region, NotFail)
        killed_mutants_count == NonWsLen(killed_text)
        live == BuildMutants([n \in 1..Len(fails) |-> fails[n].e], 0)
    IN  IF m = 0 THEN Raise(self, c, "AttributeError")
        ELSE IF s = 0 THEN Raise(named, c, "AttributeError")
        ELSE IF ScoreAnnotation(text, s) # ""
             THEN Raise(named, c, "JumbleReportError")
        ELSE IF i = 0 \/ j = 0 THEN Raise(named, c, "AttributeError")
        ELSE \* JumbleMutant.reset_counter()
             LET filled == [named EXCEPT
                              !._killed_mutants_count =
                                  Some(killed_mutants_count),
                              !.live_mutants = Some(live)]
             IN  IF Len(live) = live_mutants_count
                 THEN Done(filled, Len(live))
                 ELSE Raise(filled, Len(live), "AssertionError")

(***************************************************************************)
(* MajorReport.extract.  mutants.log is a sequence of rows, a row either    *)
(* bad (skipped by read_csv, on_bad_lines='skip') or a record of MutantNo,  *)
(* Signature and the remaining identifying columns (e); kill.csv is a       *)
(* sequence of (MutantNo, Status) rows.  A signature is a sequence of       *)
(* pieces, "@" and "$" being the separators the source splits on.           *)
(***************************************************************************)
\* s.split(sep)[0]: the pieces before the first sep
RECURSIVE SplitHead(_, _)
SplitHead(sig, sep) ==
    IF sig = <<>> \/ Head(sig) = sep THEN <<>>
    ELSE <<Head(sig)>> \o SplitHead(Tail(sig), sep)

RECURSIVE Str(_)
Str(pieces) ==
    IF pieces = <<>> THEN "" ELSE Head(pieces) \o Str(Tail(pieces))

\* cls = str(mutant.signature).split("@")[0]; cls = cls.split("$")[0]
ClassOfSignature(sig) == Str(SplitHead(SplitHead(sig, "@"), "$"))

IsGoodRow(row) == ~row.bad

\* kill_df when kill.csv has no row: "LIVE" for each mutant, on the default
\* index 0 .. len(mutants_df) - 1
DefaultKill(n) == [i \in 1..n |-> [MutantNo |-> i - 1, Status |-> "LIVE"]]

\* mutants_df.join(kill_df): left join on the MutantNo index; a row without
\* a partner gets the status NaN
RECURSIVE Join(_, _)
Join(mutants_df, kill_df) ==
    IF mutants_df = <<>> THEN <<>>
    ELSE LET row == Head(mutants_df)
             partners == SelectSeq(kill_df,
                             LAMBDA k : k.MutantNo = row.MutantNo)
             joined ==
                 IF partners = <<>>
                 THEN <<[MutantNo |-> row.MutantNo,
                         Signature |-> row.Signature,
                         e |-> row.e, Status |-> "NaN"]>>
                 ELSE [n \in 1..Len(partners) |->
                         [MutantNo |-> row.MutantNo,
                          Signature |-> row.Signature,
                          e |-> row.e, Status |-> partners[n].Status]]
         IN  joined \o Join(Tail(mutants_df), kill_df)

\* the mutants at the positions n with keep[n], in order
Bucket(mutants, keep) ==
    LET pairs == [n \in 1..Len(mutants) |->
                    [m |-> mutants[n], keep |-> keep[n]]]
        kept == SelectSeq(pairs, LAMBDA p : p.keep)
    IN  [n \in 1..Len(kept) |-> kept[n].m]

IsLive(row) == row.Status = "LIVE"
NotLive(row) == row.Status # "LIVE"

MajorExtract(self, fs, c) ==
    LET mutants_df == SelectSeq(fs.log, IsGoodRow)
        kill_df == IF fs.csv = <<>> THEN DefaultKill(Len(mutants_df))
                   ELSE fs.csv
        df == Join(mutants_df, kill_df)
        \* MajorMutant.reset_counter()
        mutants == BuildMutants([n \in 1..Len(df) |-> df[n].e], 0)
        classes == {ClassOfSignature(df[n].Signature) : n \in DOMAIN df}
        live == [n \in 1..Len(df) |-> IsLive(df[n])]
        killed == [n \in 1..Len(df) |-> NotLive(df[n])]
        filled == [self EXCEPT
                     !.live_mutants = Some(Bucket(mutants, live)),
                     !.killed_mutants = Some(Bucket(mutants, killed))]
    IN  IF Cardinality(classes) > 1
        THEN Raise(filled, Len(df), "MultipleClassUnderMutationError")
        ELSE IF classes = {}
        THEN Raise(filled, Len(df), "KeyError")       \* set().pop()
        ELSE Done([filled EXCEPT
                     !.class_under_mutation =
                         Some(CHOOSE x \in classes : TRUE)],
                  Len(df))

(***************************************************************************)
(* PitReport.extract.  The document is the sequence of the root's          *)
(* children: a "mutation" element carries detected, mutated_class and the  *)
(* remaining identifying fields (e).  The counter is not reset.            *)
(***************************************************************************)
\* index of the first child whose tag is not "mutation", 0 when there is none
FirstWrongTag(elements) ==
    LET wrong == {i \in DOMAIN elements : elements[i].tag # "mutation"}
    IN  IF wrong = {} THEN 0
        ELSE CHOOSE i \in wrong : \A k \in wrong : i <= k

IsDetected(element) == element.detected
NotDetected(element) == ~element.detected

\* PitReport.extract with the two appends exchanged
PitExtract_swapped(self, elements, c) ==
    LET w == FirstWrongTag(elements)
        seen == IF w = 0 THEN elements ELSE SubSeq(elements, 1, w - 1)
        mutants == BuildMutants([n \in 1..Len(seen) |-> seen[n].e], c)
        classes == {seen[n].mutated_class : n \in DOMAIN seen}
        live == [n \in 1..Len(seen) |-> IsDetected(seen[n])]
        killed == [n \in 1..Len(seen) |-> NotDetected(seen[n])]
        filled == [self EXCEPT
                     !.live_mutants = Some(Bucket(mutants, live)),
                     !.killed_mutants = Some(Bucket(mutants, killed))]
    IN  IF w # 0
        THEN Raise(filled, c + Len(seen), "WrongTagInPitReportError")
        ELSE IF Cardinality(classes) > 1
        THEN Raise(filled, c + Len(seen),
                   "MultipleClassUnderMutationError")
        ELSE IF classes = {}
        THEN Raise(filled, c + Len(seen), "KeyError")
        ELSE Done([filled EXCEPT
                     !.class_under_mutation =
                         Some(CHOOSE x \in classes : TRUE)],
                  c + Len(seen))

PitExtract(self, elements, c) ==
    LET w == FirstWrongTag(elements)
        seen == IF w = 0 THEN elements ELSE SubSeq(elements, 1, w - 1)
        mutants == BuildMutants([n \in 1..Len(seen) |-> seen[n].e], c)
        classes == {seen[n].mutated_class : n \in DOMAIN seen}
        live == [n \in 1..Len(seen) |-> NotDetected(seen[n])]
        killed == [n \in 1..Len(seen) |-> IsDetected(seen[n])]
        filled == [self EXCEPT
                     !.live_mutants = Some(Bucket(mutants, live)),
                     !.killed_mutants = Some(Bucket(mutants, killed))]
    IN  IF w # 0
        THEN Raise(filled, c + Len(seen), "WrongTagInPitReportError")
        ELSE IF Cardinality(classes) > 1
        THEN Raise(filled, c + Len(seen),
                   "MultipleClassUnderMutationError")
        ELSE IF classes = {}
        THEN Raise(filled, c + Len(seen), "KeyError")  \* set().pop()
        ELSE Done([filled EXCEPT
                     !.class_under_mutation =
                         Some(CHOOSE x \in classes : TRUE)],
                  c + Len(seen))

(***************************************************************************)
(* Report: the overlap check and the counts.                               *)
(***************************************************************************)
\* find_overlapping_mutants with "c >= 1" for "c > 1"
find_overlapping_mutants_off_by_one(mutants) ==
    {mutants[i] : i \in DOMAIN mutants}

\* Report.find_overlapping_mutants
find_overlapping_mutants(mutants) ==
    LET hashes == {Hash(mutants[i]) : i \in DOMAIN mutants}
        count(h) == Cardinality({i \in DOMAIN mutants : Hash(mutants[i]) = h})
        duplicates == {h \in hashes : count(h) > 1}
    IN  {mutants[i] : i \in {k \in DOMAIN mutants :
                                Hash(mutants[k]) \in duplicates}}

\* "if self.killed_mutants:": the list is neither None nor empty
Truthy(list) == list # None /\ Val(list) # <<>>

\* sanity_check with the check of the live mutants left out
sanity_check_killed_only(self) ==
    LET set_killed == find_overlapping_mutants(Val(self.killed_mutants))
    IN  IF Truthy(self.killed_mutants) /\ set_killed # {}
        THEN [raised |-> "OverlappingMutantsError", args |-> set_killed]
        ELSE IF Val(self.class_under_mutation) = ""
        THEN [raised |-> "ReportError", args |-> {}]
        ELSE [raised |-> "none", args |-> {}]

\* Report.sanity_check: the exception it raises ("none" when it returns) and
\* the exception's argument
sanity_check(self) ==
    LET set_killed == find_overlapping_mutants(Val(self.killed_mutants))
        set_live == find_overlapping_mutants(Val(self.live_mutants))
    IN  IF Truthy(self.killed_mutants) /\ set_killed # {}
        THEN [raised |-> "OverlappingMutantsError", args |-> set_killed]
        ELSE IF Truthy(self.live_mutants) /\ set_live # {}
        THEN [raised |-> "OverlappingMutantsError", args |-> set_live]
        ELSE IF Val(self.class_under_mutation) = ""
        THEN [raised |-> "ReportError", args |-> {}]
        ELSE [raised |-> "none", args |-> {}]

\* Report.killed_mutants_count; MissingKilled is the case in which the
\* property raises MissingMutantCountException
MissingKilled(self) ==
    self.killed_mutants = None /\ self._killed_mutants_count = None

killed_mutants_count(self) ==
    IF self.killed_mutants # None THEN Len(Val(self.killed_mutants))
    ELSE Val(self._killed_mutants_count)

\* Report.live_mutants_count
MissingLive(self) ==
    self.live_mutants = None /\ self._live_mutants_count = None

live_mutants_count(self) ==
    IF self.live_mutants # None THEN Len(Val(self.live_mutants))
    ELSE Val(self._live_mutants_count)

\* Report.total_mutants_count
total_mutants_count(self) ==
    killed_mutants_count(self) + live_mutants_count(self)

(***************************************************************************)
(* The artifacts the model constructs reports from.                        *)
(***************************************************************************)
JudyNames == {"A", "B"}
JudyTargets == {"A"}
KilledCounts == -1 .. 1

\* a document whose class records differ in their names only
JudyDoc(names, k, es) ==
    [classes |-> [i \in 1..Len(names) |->
                    [name |-> names[i], mutantsKilledCount |-> k,
                     notKilledMutant |-> es]]]

JudyDocs(n) ==
    {JudyDoc(names, k, es) : names \in SeqsUpTo(JudyNames, MaxClasses),
                             k \in KilledCounts, es \in SeqsUpTo(Entries, n)}

LogLines ==
    {[t |-> "noise"]} \cup {[t |-> "match", tuple |-> e] : e \in Entries}

SingleJudyInputs ==
    {[kind |-> "SingleJudyReport", files |-> [json |-> d],
      target |-> Some(c)] : d \in JudyDocs(MaxLen), c \in JudyTargets}

MultipleJudyInputs ==
    UNION {{[kind |-> "MultipleJudyReport",
             files |-> [json |-> d, log |-> l], target |-> Some(c)] :
               d \in JudyDocs(MaxLen - Len(l)), c \in JudyTargets} :
           l \in SeqsUpTo(LogLines, MaxLen)}

JumbleBody == {[t |-> "ws"], [t |-> "text", chars |-> 1],
               [t |-> "text", chars |-> 2]}
              \cup {[t |-> "fail", e |-> e] : e \in Entries}

\* Jumble's layout, with a body cut into the text before the start marker,
\* between the markers, between the end marker and the score line, and after
\* the score line
JumbleLog(body, a, b, c, err) ==
    <<[t |-> "mutating", name |-> "A"]>> \o SubSeq(body, 1, a)
    \o <<[t |-> "start"]>> \o SubSeq(body, a + 1, b)
    \o <<[t |-> "end"]>> \o SubSeq(body, b + 1, c)
    \o <<[t |-> "score", err |-> err]>> \o SubSeq(body, c + 1, Len(body))

Cuts(n) ==
    {cut \in (0..n) \X (0..n) \X (0..n) : cut[1] <= cut[2] /\ cut[2] <= cut[3]}

JumbleInput(body, cut, err) ==
    [kind |-> "JumbleReport",
     files |-> [log |-> JumbleLog(body, cut[1], cut[2], cut[3], err)],
     target |-> None]

\* logs without an error annotation, and short ones with an annotation
JumbleInputs ==
    UNION {{JumbleInput(body, cut, "") : cut \in Cuts(Len(body))} :
           body \in SeqsUpTo(JumbleBody, MaxLen)}
    \cup UNION {{JumbleInput(body, cut, "NO TESTS") :
                    cut \in Cuts(Len(body))} :
                body \in SeqsUpTo(JumbleBody, 1)}

MutantNos == {0, 1}
Signatures ==
    {<<"A", "@", "m">>, <<"A", "$", "I", "@", "m">>, <<"B", "@", "m">>}
MajorRows ==
    {[bad |-> TRUE]}
    \cup {[bad |-> FALSE, MutantNo |-> n, Signature |-> sig, e |-> e] :
            n \in MutantNos, sig \in Signatures, e \in Entries}
KillRows == {[MutantNo |-> n, Status |-> st] :
                n \in MutantNos, st \in {"LIVE", "FAIL"}}

MajorInputs ==
    UNION {{[kind |-> "MajorReport", files |-> [log |-> l, csv |-> k],
             target |-> None] : k \in SeqsUpTo(KillRows, MaxLen - Len(l))} :
           l \in SeqsUpTo(MajorRows, MaxLen)}

PitClasses == {"", "A", "B"}
PitElements ==
    {[tag |-> "other"]}
    \cup {[tag |-> "mutation", detected |-> d, mutated_class |-> c, e |-> e] :
            d \in BOOLEAN, c \in PitClasses, e \in Entries}

PitInputs ==
    {[kind |-> "PitReport", files |-> [xml |-> x], target |-> None] :
        x \in SeqsUpTo(PitElements, MaxLen)}

(***************************************************************************)
(* The constructors.                                                       *)
(***************************************************************************)
\* the file contents in the order of the constructor's file paths
FileContents(k, fs) ==
    CASE k = "SingleJudyReport" -> <<fs.json>>
      [] k = "MultipleJudyReport" -> <<fs.json, fs.log>>
      [] k = "JumbleReport" -> <<fs.log>>
      [] k = "MajorReport" -> <<fs.log, fs.csv>>
      [] k = "PitReport" -> <<fs.xml>>

\* hashlib.md5(content).hexdigest(): a digest, taken to be injective
Md5(bytes) == <<"md5", bytes>>

\* the orders in which extract() may meet the tuples of the log
Orders(k, fs) ==
    IF k = "MultipleJudyReport" THEN Orderings(LogMutations(fs.log))
    ELSE {<<>>}

\* self.extract(), dispatched on the subclass
Extract(k, self, fs, order, c) ==
    CASE k = "SingleJudyReport" -> SingleJudyExtract(self, fs, c)
      [] k = "MultipleJudyReport" -> MultipleJudyExtract(self, fs, order, c)
      [] k = "JumbleReport" -> JumbleExtract(self, fs.log, c)
      [] k = "MajorReport" -> MajorExtract(self, fs, c)
      [] k = "PitReport" -> PitExtract(self, fs.xml, c)

Init ==
    /\ pc = "idle"
    /\ kind = "none"
    /\ files = None
    /\ content = None
    /\ report = NewReport
    /\ counter = 0
    /\ error = "none"
    /\ payload = {}
    /\ extract_exc = "none"
    /\ steps = <<>>

\* A caller invokes a constructor: the subclass __init__ stores its
\* arguments (the Judy reports set class_under_mutation), Report.__init__
\* sets the collections and counts to None.
CanConstruct == pc = "idle" /\ counter <= MaxCounter

Construct(input) ==
    /\ pc' = "init"
    /\ kind' = input.kind
    /\ files' = input.files
    /\ report' = [NewReport EXCEPT !.class_under_mutation = input.target]
    /\ UNCHANGED <<content, counter, error, payload, extract_exc, steps>>

NewSingleJudyReport ==
    CanConstruct /\ \E input \in SingleJudyInputs : Construct(input)
NewMultipleJudyReport ==
    CanConstruct /\ \E input \in MultipleJudyInputs : Construct(input)
NewJumbleReport ==
    CanConstruct /\ \E input \in JumbleInputs : Construct(input)
NewMajorReport ==
    CanConstruct /\ \E input \in MajorInputs : Construct(input)
NewPitReport ==
    CanConstruct /\ \E input \in PitInputs : Construct(input)

\* content = open(...).read()
ReadBytes ==
    /\ pc = "init"
    /\ pc' = "read"
    /\ content' = Some(FileContents(kind, files))
    /\ steps' = Append(steps, "read")
    /\ UNCHANGED <<kind, files, report, counter, error, payload, extract_exc>>

\* self._hash_string = hashlib.md5(content).hexdigest()
HashBytes ==
    /\ pc = "read"
    /\ pc' = "hashed"
    /\ report' = [report EXCEPT !._hash_string = Some(Md5(Val(content)))]
    /\ steps' = Append(steps, "hash")
    /\ UNCHANGED <<kind, files, content, counter, error, payload,
                   extract_exc>>

\* try: self.extract() / except Exception: raise ReportError(ERR_EXTRACT...)
RunExtract ==
    /\ pc = "hashed"
    /\ \E order \in Orders(kind, files) :
         LET r == Extract(kind, report, files, order, counter)
         IN  /\ report' = r.self
             /\ counter' = r.counter
             /\ extract_exc' = r.raised
             /\ pc' = IF r.raised = "none" THEN "extracted" ELSE "failed"
             /\ error' = IF r.raised = "none" THEN "none" ELSE "ReportError"
    /\ steps' = Append(steps, "extract")
    /\ UNCHANGED <<kind, files, content, payload>>

\* self.sanity_check(), outside the try block
RunSanityCheck ==
    /\ pc = "extracted"
    /\ LET r == sanity_check(report)
       IN  /\ error' = r.raised
           /\ payload' = r.args
           /\ pc' = IF r.raised = "none" THEN "returned" ELSE "failed"
    /\ steps' = Append(steps, "sanity_check")
    /\ UNCHANGED <<kind, files, content, report, counter, extract_exc>>

\* The caller is done with the report, or with the exception; the counter
\* stays as the construction left it.
Finish ==
    /\ pc \in {"returned", "failed"}
    /\ pc' = "idle"
    /\ kind' = "none"
    /\ files' = None
    /\ content' = None
    /\ report' = NewReport
    /\ error' = "none"
    /\ payload' = {}
    /\ extract_exc' = "none"
    /\ steps' = <<>>
    /\ UNCHANGED counter

Next ==
    \/ NewSingleJudyReport
    \/ NewMultipleJudyReport
    \/ NewJumbleReport
    \/ NewMajorReport
    \/ NewPitReport
    \/ ReadBytes
    \/ HashBytes
    \/ RunExtract
    \/ RunSanityCheck
    \/ Finish

Spec == Init /\ [][Next]_vars

(***************************************************************************)
(* Properties.                                                             *)
(***************************************************************************)
Lifecycle == <<"read", "hash", "extract", "sanity_check">>

IsPrefix(s, t) == Len(s) <= Len(t) /\ s = SubSeq(t, 1, Len(s))

ListOf(opt) == IF opt = None THEN <<>> ELSE Val(opt)

\* the positions of a list whose mutant shares its hash with another position
Colliding(list) ==
    {i \in DOMAIN list :
        \E j \in DOMAIN list : j # i /\ Hash(list[j]) = Hash(list[i])}

Killed == ListOf(report.killed_mutants)
Live == ListOf(report.live_mutants)

Judy == {"SingleJudyReport", "MultipleJudyReport"}
Extracted == pc \in {"extracted", "returned", "failed"} /\ Len(steps) >= 3
Checked == pc \in {"returned", "failed"} /\ Len(steps) = 4

\* C1: a constructor runs read, hash, extract, sanity_check in that order,
\* each at most once; a report is returned only after extract() raised
\* nothing and sanity_check() passed, and then no two killed mutants and no
\* two live mutants share a hash and class_under_mutation is non-empty; when
\* extract() or sanity_check() fails the constructor raises.
C1_Lifecycle ==
    /\ IsPrefix(steps, Lifecycle)
    /\ pc = "returned" =>
          /\ steps = Lifecycle
          /\ extract_exc = "none" /\ error = "none"
          /\ Colliding(Killed) = {} /\ Colliding(Live) = {}
          /\ report.class_under_mutation # None
          /\ Val(report.class_under_mutation) # ""
    /\ extract_exc # "none" =>
          pc = "failed" /\ error = "ReportError"
          /\ steps = SubSeq(Lifecycle, 1, 3)
    /\ pc = "failed" => error # "none"
    /\ (Checked /\ (Colliding(Killed) # {} \/ Colliding(Live) # {}
                    \/ Val(report.class_under_mutation) = "")) =>
          pc = "failed"

C1_Returned ==
    pc = "returned" /\ Len(Killed) >= 1 /\ Len(Live) >= 1

\* the classes of a Judy document that carry the target's name
JudyMatches ==
    {i \in DOMAIN files.json.classes :
        files.json.classes[i].name = Val(report.class_under_mutation)}

\* C2: the caller of a Judy constructor sees EmptyJudyReportError for an
\* empty "classes" list, MultipleClassFromJudyReportError for two or more
\* entries named as the target, MissingClassFromJudyReportError for a
\* non-empty list without such an entry.
C2_JudyErrorKinds ==
    (kind \in Judy /\ pc = "failed") =>
        /\ files.json.classes = <<>> => error = "EmptyJudyReportError"
        /\ Cardinality(JudyMatches) >= 2 =>
              error = "MultipleClassFromJudyReportError"
        /\ (files.json.classes # <<>> /\ JudyMatches = {}) =>
              error = "MissingClassFromJudyReportError"

\* the report holds one pair of mutants of equal hash, at i and j of list,
\* and no other collision
OnlyPair(list, other, i, j) ==
    /\ i \in DOMAIN list /\ j \in DOMAIN list /\ i # j
    /\ Colliding(list) = {i, j}
    /\ Colliding(other) = {}

PairPayload(list, other) ==
    \A i, j \in DOMAIN list :
        OnlyPair(list, other, i, j) =>
            /\ pc = "failed" /\ error = "OverlappingMutantsError"
            /\ list[i] \in payload /\ list[j] \in payload
            /\ \A m \in payload : Hash(m) = Hash(list[i])

WellFormedRows(rows) ==
    /\ Len(rows) >= 1
    /\ \A n \in DOMAIN rows : ~rows[n].bad
    /\ \A n, k \in DOMAIN rows :
          ClassOfSignature(rows[n].Signature)
              = ClassOfSignature(rows[k].Signature)

\* C4: a MajorReport built from M >= 1 well-formed rows of one class and an
\* empty kill-status table holds M live mutants and no killed mutant,
\* whatever the rows' MutantNo.
C4_EmptyStatusAllLive ==
    (kind = "MajorReport" /\ Extracted /\ files.csv = <<>>
     /\ WellFormedRows(files.log)) =>
        /\ extract_exc = "none"
        /\ Len(Live) = Len(files.log)
        /\ Len(Killed) = 0

WellFormedXml(x) ==
    /\ \A n \in DOMAIN x : x[n].tag = "mutation"
    /\ \A n, k \in DOMAIN x : x[n].mutated_class = x[k].mutated_class

Detected(x) == {n \in DOMAIN x : x[n].detected}
Undetected(x) == {n \in DOMAIN x : ~x[n].detected}

\* C5 as stated: for every well-formed document with K detected and L other
\* mutation children of one class, K, L >= 0, the constructor returns a
\* report of K killed and L live mutants whose class is that class.
C5_AnyKL ==
    (kind = "PitReport" /\ pc \in {"returned", "failed"}
     /\ WellFormedXml(files.xml)) =>
        /\ pc = "returned"
        /\ Len(Killed) = Cardinality(Detected(files.xml))
        /\ Len(Live) = Cardinality(Undetected(files.xml))
        /\ \A n \in DOMAIN files.xml :
              report.class_under_mutation = Some(files.xml[n].mutated_class)

\* C5, amended: for a well-formed document with K detected and L other
\* mutation children, K + L >= 1, all of one non-empty class, extraction
\* yields K killed and L live mutants and that class; the constructor then
\* returns the report unless two mutants of one bucket share a hash, in
\* which case it fails with OverlappingMutantsError.
C5_AtLeastOne ==
    (kind = "PitReport" /\ pc \in {"returned", "failed"}
     /\ WellFormedXml(files.xml) /\ Len(files.xml) >= 1
     /\ files.xml[1].mutated_class # "") =>
        /\ extract_exc = "none"
        /\ Len(Killed) = Cardinality(Detected(files.xml))
        /\ Len(Live) = Cardinality(Undetected(files.xml))
        /\ report.class_under_mutation = Some(files.xml[1].mutated_class)
        /\ IF Colliding(Killed) = {} /\ Colliding(Live) = {}
           THEN pc = "returned"
           ELSE pc = "failed" /\ error = "OverlappingMutantsError"

C5_KilledAndLive ==
    /\ kind = "PitReport" /\ pc = "returned"
    /\ Cardinality(Detected(files.xml)) = 1
    /\ Cardinality(Undetected(files.xml)) = 1
    /\ Len(Killed) = 1 /\ Len(Live) = 1

\* C6: in every returned report killed + live = total, both counts are
\* >= 0, and the score killed / total lies in [0, 1] when total > 0.
C6_CountsAndScore ==
    pc = "returned" =>
        /\ ~MissingKilled(report) /\ ~MissingLive(report)
        /\ killed_mutants_count(report) >= 0
        /\ live_mutants_count(report) >= 0
        /\ killed_mutants_count(report) + live_mutants_count(report)
              = total_mutants_count(report)
        /\ total_mutants_count(report) > 0 =>
              /\ 0 <= killed_mutants_count(report)
              /\ killed_mutants_count(report) <= total_mutants_count(report)

\* the tokens strictly between the start marker and the end marker
JumbleRegion(log) ==
    LET i == CHOOSE n \in DOMAIN log : log[n].t = "start"
        j == CHOOSE n \in DOMAIN log : log[n].t = "end"
    IN  SubSeq(log, i + 1, j - 1)

ScoreLine(log) == log[CHOOSE n \in DOMAIN log : log[n].t = "score"]

RECURSIVE Chars(_)
Chars(toks) ==
    IF toks = <<>> THEN 0
    ELSE (IF Head(toks).t = "text" THEN Head(toks).chars ELSE 0)
         + Chars(Tail(toks))

\* C7: for a Jumble log with one "Mutating" marker, a score line without
\* annotation and a start marker followed by an end marker, extraction
\* yields one live mutant per "M FAIL" occurrence between the markers and a
\* killed count equal to the number of non-blank characters left there.
C7_JumbleRegion ==
    (kind = "JumbleReport" /\ Extracted /\ ScoreLine(files.log).err = "") =>
        /\ extract_exc = "none"
        /\ Len(Live) = Len(SelectSeq(JumbleRegion(files.log), IsFail))
        /\ report._killed_mutants_count
              = Some(Chars(JumbleRegion(files.log)))

\* C8: in a returned report, a bucket for which both the collection and the
\* scalar count are set has a scalar equal to the collection's length.
C8_NoConflict ==
    pc = "returned" =>
        /\ (report.killed_mutants # None
            /\ report._killed_mutants_count # None)
              => Val(report._killed_mutants_count) = Len(Killed)
        /\ (report.live_mutants # None /\ report._live_mutants_count # None)
              => Val(report._live_mutants_count) = Len(Live)

\* the distinct tuples of the matching lines of a log
DistinctTuples(lines) ==
    {e \in Entries : \E n \in DOMAIN lines :
        lines[n].t = "match" /\ lines[n].tuple = e}

\* C9: _extract_log ignores the lines that do not match and yields exactly
\* one killed mutant for each distinct tuple of the matching lines, however
\* often and in whatever order the lines occur.
C9_OnePerTuple ==
    (kind = "MultipleJudyReport" /\ Extracted /\ extract_exc = "none") =>
        /\ report.killed_mutants # None
        /\ Len(Killed) = Cardinality(DistinctTuples(files.log))
        /\ \A e \in DistinctTuples(files.log) :
              Cardinality({n \in DOMAIN Killed :
                              Killed[n].attrs = e.attrs}) = 1

C9_RepeatedLine ==
    /\ kind = "MultipleJudyReport" /\ Extracted /\ extract_exc = "none"
    /\ Len(files.log) = 2 /\ files.log[1] = files.log[2]
    /\ files.log[1].t = "match"
    /\ Len(Killed) = 1

\* the object as it is when extract() is called
BeforeExtract ==
    [NewReport EXCEPT
       !.class_under_mutation =
           IF kind \in Judy THEN report.class_under_mutation ELSE None,
       !._hash_string = report._hash_string]

\* C10: the mutants of a report are those its extraction yields from the
\* report's artifacts with the counter reset, whichever reports were
\* constructed before.
C10_CounterReset ==
    (Extracted /\ extract_exc = "none") =>
        \E order \in Orders(kind, files) :
            Extract(kind, BeforeExtract, files, order, 0).self = report

====
